---- MODULE Spec2Model ----
(***************************************************************************)
(* Envelope-encryption secrets service (package secrets): Init,            *)
(* newRandomDataKey, Encrypt, Decrypt and dataKey, run by concurrent       *)
(* callers against a shared key store, with the data key cache, the        *)
(* provider registry and a clock.                                          *)
(*                                                                         *)
(* Bytes are their numeric values (35 is '#'); a []byte or a string is a   *)
(* sequence of them.  Time is counted in minutes.                          *)
(***************************************************************************)
EXTENDS Integers, Sequences, FiniteSets, TLC

-----------------------------------------------------------------------------
(* Bounds of the model *)

\* The clock stops advancing here.
MaxTime == 17

-----------------------------------------------------------------------------
(* Program constants *)

\* '#', the envelope delimiter.
Hash == 35

\* Lifetime of a cache entry: 15 * time.Minute.
TTL == 15

\* make([]byte, 16) in newRandomDataKey.
KeyLen == 16

\* s.defaultProvider is never assigned: the zero value "".
DefaultProvider == ""

\* setting.SecretKey, the process-wide static secret ("SK").
SecretKey == <<83, 75>>

\* base_key := "root"
Root == <<114, 111, 111, 116>>

-----------------------------------------------------------------------------
(* Results of calls: a value, or an error *)

Ok(v) == [ok |-> TRUE, val |-> v, err |-> "nil"]

Err(e) == [ok |-> FALSE, val |-> <<>>, err |-> e]

-----------------------------------------------------------------------------
(* encoding/base64, RawStdEncoding: the standard alphabet, no padding *)

B64Char(i) ==
    IF i < 26 THEN 65 + i
    ELSE IF i < 52 THEN 97 + (i - 26)
    ELSE IF i < 62 THEN 48 + (i - 52)
    ELSE IF i = 62 THEN 43 ELSE 47

\* The 6-bit value of an alphabet character, -1 for any other byte.
B64Val(ch) ==
    IF ch >= 65 /\ ch <= 90 THEN ch - 65
    ELSE IF ch >= 97 /\ ch <= 122 THEN ch - 97 + 26
    ELSE IF ch >= 48 /\ ch <= 57 THEN ch - 48 + 52
    ELSE IF ch = 43 THEN 62
    ELSE IF ch = 47 THEN 63 ELSE -1

EncodedLen(n) == (n * 8 + 5) \div 6

DecodedLen(n) == (n * 6) \div 8

RECURSIVE B64Encode(_)
B64Encode(s) ==
    IF Len(s) = 0 THEN <<>>
    ELSE IF Len(s) = 1 THEN
        << B64Char(s[1] \div 4), B64Char((s[1] % 4) * 16) >>
    ELSE IF Len(s) = 2 THEN
        << B64Char(s[1] \div 4),
           B64Char((s[1] % 4) * 16 + s[2] \div 16),
           B64Char((s[2] % 16) * 4) >>
    ELSE
        << B64Char(s[1] \div 4),
           B64Char((s[1] % 4) * 16 + s[2] \div 16),
           B64Char((s[2] % 16) * 4 + s[3] \div 64),
           B64Char(s[3] % 64) >>
        \o B64Encode(SubSeq(s, 4, Len(s)))

\* The decoder skips '\r' and '\n'.
RECURSIVE SkipNewlines(_)
SkipNewlines(s) ==
    IF Len(s) = 0 THEN <<>>
    ELSE IF s[1] = 10 \/ s[1] = 13 THEN SkipNewlines(Tail(s))
    ELSE <<s[1]>> \o SkipNewlines(Tail(s))

\* Decoding of newline-free input: quanta of four characters, a last
\* quantum of two or three; trailing bits are not checked.
RECURSIVE B64DecodeQuanta(_)
B64DecodeQuanta(s) ==
    IF Len(s) = 0 THEN Ok(<<>>)
    ELSE IF \E i \in 1..Len(s) : i <= 4 /\ B64Val(s[i]) = -1 THEN Err("CorruptInput")
    ELSE IF Len(s) = 1 THEN Err("CorruptInput")
    ELSE IF Len(s) = 2 THEN
        Ok(<< B64Val(s[1]) * 4 + B64Val(s[2]) \div 16 >>)
    ELSE IF Len(s) = 3 THEN
        Ok(<< B64Val(s[1]) * 4 + B64Val(s[2]) \div 16,
              (B64Val(s[2]) % 16) * 16 + B64Val(s[3]) \div 4 >>)
    ELSE
        LET rest == B64DecodeQuanta(SubSeq(s, 5, Len(s)))
        IN  IF ~rest.ok THEN rest
            ELSE Ok(<< B64Val(s[1]) * 4 + B64Val(s[2]) \div 16,
                       (B64Val(s[2]) % 16) * 16 + B64Val(s[3]) \div 4,
                       (B64Val(s[3]) % 4) * 64 + B64Val(s[4]) >>
                    \o rest.val)

B64Decode(s) == B64DecodeQuanta(SkipNewlines(s))

-----------------------------------------------------------------------------
(* The cipher primitive encrypt(payload, key) / decrypt(payload, key): an   *)
(* authenticated cipher with a random leading byte.  The functions are not  *)
(* part of the sources at hand; this is a small cipher with the properties  *)
(* the design document asks of the primitive.                               *)

RECURSIVE SumBytes(_)
SumBytes(s) == IF Len(s) = 0 THEN 0 ELSE s[1] + SumBytes(Tail(s))

KeySum(k) == SumBytes(k) % 256

\* The tag over the encrypted bytes c, the key and the random byte n.
Mac(c, k, n) == (SumBytes(c) * 3 + KeySum(k) * 5 + Len(c) * 11 + n * 7 + 17) % 256

\* encrypt(payload, key) with random byte n: n, the encrypted bytes, the tag.
Seal(p, k, n) ==
    LET body == [i \in 1..Len(p) |-> (p[i] + KeySum(k) + n) % 256]
    IN  <<n>> \o body \o <<Mac(body, k, n)>>

\* decrypt(payload, key): the tag is checked, then the bytes are decrypted.
Open(c, k) ==
    IF Len(c) < 2 THEN Err("CipherFailure")
    ELSE LET n == c[1]
             body == SubSeq(c, 2, Len(c) - 1)
             p == [i \in 1..Len(body) |-> (body[i] + 512 - KeySum(k) - n) % 256]
         IN  IF Mac(body, k, n) = c[Len(c)] THEN Ok(p) ELSE Err("CipherFailure")

\* The Provider registered under "": secretKey, whose Encrypt and Decrypt
\* apply the cipher under setting.SecretKey.
ProviderDecrypt(id, blob) == Open(blob, SecretKey)

-----------------------------------------------------------------------------
(* The envelope *)

\* Encrypt with no header put in front of the encrypted bytes.
EncodeEnvelope_NoHeader(key, encrypted) == encrypted

\* Encrypt, lines 576-583: '#' + b64(key) + '#' + encrypted.
EncodeEnvelope(key, encrypted) ==
    LET prefixLen == EncodedLen(Len(key)) + 2
        prefix == [i \in 1..prefixLen |->
                     IF i = 1 \/ i = prefixLen THEN Hash ELSE B64Encode(key)[i - 1]]
    IN  prefix \o encrypted

\* The index of the last ch of s for that of the first.
RECURSIVE IndexOf_Last(_, _)
IndexOf_Last(s, ch) ==
    IF Len(s) = 0 THEN -1
    ELSE IF s[Len(s)] = ch THEN Len(s) - 1
    ELSE IndexOf_Last(SubSeq(s, 1, Len(s) - 1), ch)

\* bytes.Index(payload, []byte{'#'}): 0-based, -1 when absent.
RECURSIVE IndexOf(_, _)
IndexOf(s, ch) ==
    IF Len(s) = 0 THEN -1
    ELSE IF s[1] = ch THEN 0
    ELSE LET r == IndexOf(Tail(s), ch) IN IF r = -1 THEN -1 ELSE r + 1

\* The parse with no test of endOfKey: a payload with no second '#' is taken
\* for one with the empty key name.
ParseEnvelope_NoCheck(payload) ==
    LET rest == Tail(payload)
        endOfKey == IndexOf(rest, Hash)
        b64Key == SubSeq(rest, 1, endOfKey)
        dec == B64Decode(b64Key)
    IN  IF endOfKey = -1
        THEN [ok |-> TRUE, err |-> "nil", key |-> <<>>, payload |-> rest]
        ELSE IF ~dec.ok
        THEN [ok |-> FALSE, err |-> "CorruptInput", key |-> <<>>, payload |-> <<>>]
        ELSE [ok |-> TRUE, err |-> "nil",
              key |-> [i \in 1..DecodedLen(Len(b64Key)) |->
                         IF i <= Len(dec.val) THEN dec.val[i] ELSE 0],
              payload |-> SubSeq(rest, endOfKey + 2, Len(rest))]

\* Decrypt, lines 598-609, on a payload whose first byte is '#': the key
\* name and the remaining payload, or the error returned.  The key buffer has
\* DecodedLen(len(b64Key)) bytes, of which Decode fills the first ones.
ParseEnvelope(payload) ==
    LET rest == Tail(payload)
        endOfKey == IndexOf(rest, Hash)
    IN  IF endOfKey = -1 THEN [ok |-> FALSE, err |-> "MalformedEnvelope",
                               key |-> <<>>, payload |-> <<>>]
        ELSE LET b64Key == SubSeq(rest, 1, endOfKey)
                 after == SubSeq(rest, endOfKey + 2, Len(rest))
                 dec == B64Decode(b64Key)
                 buf == [i \in 1..DecodedLen(Len(b64Key)) |->
                           IF i <= Len(dec.val) THEN dec.val[i] ELSE 0]
             IN  IF ~dec.ok THEN [ok |-> FALSE, err |-> "CorruptInput",
                                  key |-> <<>>, payload |-> <<>>]
                 ELSE [ok |-> TRUE, err |-> "nil", key |-> buf, payload |-> after]

-----------------------------------------------------------------------------
(* Inputs *)

\* The callers (goroutines) of the service.
Callers == {"c1", "c2"}

\* Names of data keys: "k", "x", "m".
KName == <<107>>

XName == <<120>>

MName == <<109>>

Names == {Root, KName, XName, MName}

\* The longest blob Encrypt returns here, and the bits of a byte.
MaxBlob == 8

Bits == 0..7

\* Key names and encrypted bytes put into envelopes: the empty name, names
\* of one to four bytes (one with a '#', one whose base64 has '+' and '/'),
\* and encrypted bytes that are empty or hold '#' and line ends.
CodecNames ==
    { <<>>, <<107>>, <<35>>, <<0, 0>>, <<251, 255, 190>>, <<114, 111, 111, 116>> }

CodecBytes ==
    { <<>>, <<35>>, <<35, 35>>, <<7, 35, 9>>, <<65>>, <<10, 13, 35>> }

\* Payloads handed to Encrypt.
Payloads == { <<>>, <<65, 35>> }

\* The random leading bytes the cipher draws; one of them is '#'.
Nonces == {7, 35}

\* The keys rand.Read can produce: KeyLen bytes each.
RandKeys == { [i \in 1..KeyLen |-> IF i = 1 THEN v ELSE i] : v \in {3} }

\* The plaintext of data key "k".
KData == <<9, 9>>

\* Values of s.defaultEncryptionKey.
DefaultKeys == { <<>>, KName, Root }

NoRec == [name |-> <<>>, provider |-> "none", data |-> <<>>, active |-> FALSE]

\* The records other writers have put into the shared store: "k", wrapped by
\* the "" provider, and "x", wrapped by a provider this service does not know.
ForeignRecords ==
    [n \in {KName, XName} |->
        IF n = KName
        THEN [name |-> KName, provider |-> "", data |-> Seal(KData, SecretKey, 7),
              active |-> TRUE]
        ELSE [name |-> XName, provider |-> "kms", data |-> Seal(KData, <<1>>, 7),
              active |-> TRUE]]

\* The "root" record as an earlier run of newRandomDataKey (with the default
\* key "") left it in the store.
EarlierRoot(b, n) ==
    [name |-> Root, provider |-> DefaultProvider,
     data |-> EncodeEnvelope(<<>>, Seal(b, SecretKey, n)), active |-> TRUE]

\* Blobs handed to Decrypt besides the results of Encrypt: empty, legacy
\* (with and without a leading '#'), no closing '#', bad base64, and
\* envelopes naming "", "k", "x" and "m".
InputBlobs ==
    { <<>>,
      Seal(<<65>>, SecretKey, 7),
      Seal(<<65>>, SecretKey, 35),
      <<35, 97, 119>>,
      <<35, 97, 35, 7>>,
      EncodeEnvelope(<<>>, Seal(<<65>>, SecretKey, 7)),
      EncodeEnvelope(KName, Seal(<<65>>, KData, 7)),
      EncodeEnvelope(XName, Seal(<<65>>, KData, 7)),
      EncodeEnvelope(MName, Seal(<<65>>, KData, 7)) }

-----------------------------------------------------------------------------
(* State *)

VARIABLES
    defaultEncryptionKey,  \* s.defaultEncryptionKey
    providers,             \* s.providers: the registered provider ids
    cacheNil,              \* s.dataKeyCache is the nil map
    dataKeyCache,          \* s.dataKeyCache: name -> dataKeyCacheItem
    store,                 \* the key store: name -> DataKey
    storeUp,               \* the key store answers the calls made to it
    hooks,                 \* util.Encrypt / util.Decrypt
    now,                   \* time.Now(), in minutes
    fatal,                 \* the process has died of a runtime error
    ready,                 \* some Init has returned nil
    call                   \* per caller: the running call and its locals

vars == << defaultEncryptionKey, providers, cacheNil, dataKeyCache, store,
           storeUp, hooks, now, fatal, ready, call >>

\* A caller that runs nothing.  Besides the locals of the code (payload, key,
\* rec, dk, dec, enc, res) a call records what it has done so far.
Idle ==
    [ op |-> "none", pc |-> "idle",
      payload |-> <<>>, key |-> <<>>, rec |-> NoRec,
      dk |-> Err("none"), dec |-> <<>>, enc |-> <<>>, res |-> Err("none"),
      arg |-> <<>>,          \* the argument of the call
      nFetch |-> 0,          \* dataKey: store.GetDataKey calls
      nDec |-> 0,            \* provider.Decrypt calls
      nAcc |-> 0,            \* reads, deletes and writes of the cache
      nMut |-> 0,            \* deletes and writes of the cache
      nCreate |-> 0,         \* store.CreateDataKey calls
      nCipher |-> 0,         \* encrypt / decrypt calls
      cipherOut |-> "none",  \* what the cipher call returned: ok, fail
      seen |-> "none",       \* what the cache lookup found: miss, valid, expired
      age |-> "none",        \* the age of the entry found: fresh, edge, stale
      getOut |-> "none",     \* Init: outcome of GetDataKey
      createOut |-> "none",  \* Init: outcome of CreateDataKey
      origin |-> Err("none"),\* Decrypt of an Encrypt result: the payload encrypted
      originKey |-> <<>>,    \* ... and the key name Encrypt used
      flipped |-> 0,         \* ... and the byte of the result that was altered
      env |-> FALSE,         \* Decrypt of an envelope put together by the caller
      envKey |-> <<>>,       \* ... its key name
      envBytes |-> <<>>,     \* ... its encrypted bytes
      preReady |-> FALSE,    \* the call began before any Init had returned nil
      storeBefore |-> <<>>,  \* Init: the store when the call began
      cacheBefore |-> <<>> ] \* dataKey: the cache when it was entered

NewCall(op, pc, arg) ==
    [Idle EXCEPT !.op = op, !.pc = pc, !.arg = arg, !.payload = arg,
                 !.preReady = ~ready,
                 !.storeBefore = IF op = "Init" THEN store ELSE <<>>]

Init ==
    /\ defaultEncryptionKey \in DefaultKeys
    /\ providers = {}
    /\ cacheNil \in BOOLEAN
    /\ dataKeyCache = <<>>
    /\ \E rootThere \in BOOLEAN :
         store = IF rootThere
                 THEN [n \in {KName, XName, Root} |->
                         IF n = Root
                         THEN EarlierRoot(CHOOSE b \in RandKeys : TRUE, 7)
                         ELSE ForeignRecords[n]]
                 ELSE ForeignRecords
    /\ storeUp \in BOOLEAN
    /\ hooks = "none"
    /\ now = 1
    /\ fatal = "none"
    /\ ready = FALSE
    /\ call = [c \in Callers |-> Idle]

-----------------------------------------------------------------------------
(* The key store (GetDataKey, CreateDataKey) and the cache as Go maps *)

\* A store call under a context that has no deadline: it ends when the
\* store answers.
WithTimeout_None(answers) == answers

\* context.WithTimeout(context.Background(), d): a store call under ctx ends
\* with an answer of the store or, whatever the store does, with the deadline
\* passing.
WithTimeout(answers) == answers \cup {"timeout"}

\* What store.GetDataKey(ctx, name) can answer: the record, or
\* ErrDataKeyNotFound when there is none; or the deadline of ctx passing.
GetDataKeyOutcomes(name) ==
    WithTimeout(IF ~storeUp THEN {}
                ELSE IF name \in DOMAIN store THEN {"found"} ELSE {"notfound"})

\* A store whose CreateDataKey writes over the record of an existing name.
CreateDataKeyOutcomes_Upsert(name) ==
    WithTimeout(IF ~storeUp THEN {} ELSE {"nil"})

\* What store.CreateDataKey(ctx, record) can answer: nil after writing the
\* record, a failure when the name exists; or the deadline of ctx passing.
CreateDataKeyOutcomes(name) ==
    WithTimeout(IF ~storeUp THEN {}
                ELSE IF name \in DOMAIN store THEN {"AlreadyExists"} ELSE {"nil"})

MapPut(m, k, v) == [n \in DOMAIN m \cup {k} |-> IF n = k THEN v ELSE m[n]]

\* delete left out: the map keeps the entry.
MapDelete_Keep(m, k) == m

MapDelete(m, k) == [n \in DOMAIN m \ {k} |-> m[n]]

\* The test with "not after" for "before": an entry expires at its expiry.
Expired_Strict(item, t) == item.expiry <= t /\ item.expiry # 0

\* item.expiry.Before(time.Now()) && !item.expiry.IsZero()
Expired(item, t) == item.expiry < t /\ item.expiry # 0

\* The item with Add(15 * time.Minute) left out.
NewCacheItem_NoTTL(decrypted, t) ==
    [expiry |-> t, dataKey |-> decrypted, filled |-> t]

\* dataKeyCacheItem{expiry: time.Now().Add(15 * time.Minute), dataKey: decrypted};
\* filled records when the item was made.
NewCacheItem(decrypted, t) ==
    [expiry |-> t + TTL, dataKey |-> decrypted, filled |-> t]

\* How long ago an entry was filled, against fifteen minutes: recorded by
\* the lookup, not used by the code.
EntryAge(item, t) ==
    IF t - item.filled < 15 THEN "fresh"
    ELSE IF t - item.filled = 15 THEN "edge" ELSE "stale"

-----------------------------------------------------------------------------
(* Callers begin and end calls *)

Running == fatal = "none"

StartInit(c) ==
    /\ Running /\ call[c].pc = "idle"
    /\ call' = [call EXCEPT ![c] = NewCall("Init", "init_providers", <<>>)]
    /\ UNCHANGED << defaultEncryptionKey, providers, cacheNil, dataKeyCache,
                    store, storeUp, hooks, now, fatal, ready >>

StartEncrypt(c, p) ==
    /\ Running /\ call[c].pc = "idle"
    /\ call' = [call EXCEPT ![c] = NewCall("Encrypt", "enc_start", p)]
    /\ UNCHANGED << defaultEncryptionKey, providers, cacheNil, dataKeyCache,
                    store, storeUp, hooks, now, fatal, ready >>

StartDecrypt(c, blob) ==
    /\ Running /\ call[c].pc = "idle"
    /\ call' = [call EXCEPT ![c] = NewCall("Decrypt", "dec_start", blob)]
    /\ UNCHANGED << defaultEncryptionKey, providers, cacheNil, dataKeyCache,
                    store, storeUp, hooks, now, fatal, ready >>

\* The caller hands the blob Encrypt returned to Decrypt.
DecryptResult(c) ==
    /\ Running
    /\ call[c].pc = "done" /\ call[c].op = "Encrypt" /\ call[c].res.ok
    /\ call' = [call EXCEPT ![c] =
                  [NewCall("Decrypt", "dec_start", call[c].res.val)
                     EXCEPT !.origin = Ok(call[c].arg),
                            !.originKey = call[c].key]]
    /\ UNCHANGED << defaultEncryptionKey, providers, cacheNil, dataKeyCache,
                    store, storeUp, hooks, now, fatal, ready >>

\* The caller hands to Decrypt the envelope of key name k and encrypted
\* bytes ct, as lines 576-585 put it together.
StartDecryptEnvelope(c, k, ct) ==
    /\ Running /\ call[c].pc = "idle"
    /\ call' = [call EXCEPT ![c] =
                  [NewCall("Decrypt", "dec_start", EncodeEnvelope(k, ct))
                     EXCEPT !.env = TRUE, !.envKey = k, !.envBytes = ct]]
    /\ UNCHANGED << defaultEncryptionKey, providers, cacheNil, dataKeyCache,
                    store, storeUp, hooks, now, fatal, ready >>

\* v with bit j inverted.
FlipBit(v, j) ==
    IF (v \div (2 ^ j)) % 2 = 1 THEN v - 2 ^ j ELSE v + 2 ^ j

\* The caller hands to Decrypt the blob Encrypt returned with bit j of byte i
\* inverted.
TamperResult(c, i, j) ==
    /\ Running
    /\ call[c].pc = "done" /\ call[c].op = "Encrypt" /\ call[c].res.ok
    /\ i \in 1..Len(call[c].res.val)
    /\ call' = [call EXCEPT ![c] =
                  [NewCall("Decrypt", "dec_start",
                           [call[c].res.val EXCEPT ![i] = FlipBit(@, j)])
                     EXCEPT !.origin = Ok(call[c].arg),
                            !.originKey = call[c].key,
                            !.flipped = i]]
    /\ UNCHANGED << defaultEncryptionKey, providers, cacheNil, dataKeyCache,
                    store, storeUp, hooks, now, fatal, ready >>

\* The operator configures another default key; no call of the service is
\* running.
SetDefaultKey(k) ==
    /\ Running
    /\ k # defaultEncryptionKey
    /\ \A c \in Callers :
         \/ call[c].pc = "idle"
         \/ call[c].pc = "done" /\ call[c].op = "Encrypt"
    /\ defaultEncryptionKey' = k
    /\ UNCHANGED << providers, cacheNil, dataKeyCache, store, storeUp, hooks,
                    now, fatal, ready, call >>

StartDataKey(c, name) ==
    /\ Running /\ call[c].pc = "idle"
    /\ call' = [call EXCEPT ![c] =
                  [NewCall("dataKey", "dk_start", name) EXCEPT !.key = name]]
    /\ UNCHANGED << defaultEncryptionKey, providers, cacheNil, dataKeyCache,
                    store, storeUp, hooks, now, fatal, ready >>

Return(c) ==
    /\ Running /\ call[c].pc = "done"
    /\ call' = [call EXCEPT ![c] = Idle]
    /\ UNCHANGED << defaultEncryptionKey, providers, cacheNil, dataKeyCache,
                    store, storeUp, hooks, now, fatal, ready >>

-----------------------------------------------------------------------------
(* dataKey, lines 620-659 *)

\* dataKey asking the store once more after a deadline passed.
DataKeyReturn_Retry(me, r) ==
    IF r.err = "StoreTimeout" /\ me.nFetch < 2 THEN [me EXCEPT !.pc = "dk_fetch"]
    ELSE IF me.op = "dataKey" THEN [me EXCEPT !.dk = r, !.res = r, !.pc = "done"]
    ELSE IF me.op = "Decrypt" THEN [me EXCEPT !.dk = r, !.pc = "dec_ret"]
    ELSE [me EXCEPT !.dk = r, !.pc = "enc_ret"]

\* The caller's state when dataKey returns r to it.
DataKeyReturn(me, r) ==
    IF me.op = "dataKey" THEN [me EXCEPT !.dk = r, !.res = r, !.pc = "done"]
    ELSE IF me.op = "Decrypt" THEN [me EXCEPT !.dk = r, !.pc = "dec_ret"]
    ELSE [me EXCEPT !.dk = r, !.pc = "enc_ret"]

\* dataKey with no test for the empty name: "" is looked up as any name.
DkStart_NoShortcut(c) ==
    LET me == call[c] IN
    /\ Running /\ me.pc = "dk_start"
    /\ call' = [call EXCEPT ![c] =
                  [me EXCEPT !.pc = "dk_read", !.cacheBefore = dataKeyCache]]
    /\ UNCHANGED << defaultEncryptionKey, providers, cacheNil, dataKeyCache,
                    store, storeUp, hooks, now, fatal, ready >>

\* Lines 621-623: the empty name is the static secret.
DkStart(c) ==
    LET me == call[c] IN
    /\ Running /\ me.pc = "dk_start"
    /\ call' = [call EXCEPT ![c] =
                  IF me.key = <<>>
                  THEN DataKeyReturn(me, Ok(SecretKey))
                  ELSE [me EXCEPT !.pc = "dk_read", !.cacheBefore = dataKeyCache]]
    /\ UNCHANGED << defaultEncryptionKey, providers, cacheNil, dataKeyCache,
                    store, storeUp, hooks, now, fatal, ready >>

\* The lookup with a sliding expiry: a hit renews the entry.
DkCacheRead_Touch(c) ==
    LET me == [call[c] EXCEPT !.nAcc = @ + 1] IN
    /\ Running /\ me.pc = "dk_read"
    /\ IF me.key \notin DOMAIN dataKeyCache
       THEN /\ call' = [call EXCEPT ![c] =
                          [me EXCEPT !.seen = "miss", !.pc = "dk_fetch"]]
            /\ UNCHANGED dataKeyCache
       ELSE LET item == dataKeyCache[me.key]
                me2 == [me EXCEPT !.age = EntryAge(item, now)]
            IN  IF Expired(item, now)
                THEN /\ call' = [call EXCEPT ![c] =
                                   [me2 EXCEPT !.seen = "expired", !.pc = "dk_delete"]]
                     /\ UNCHANGED dataKeyCache
                ELSE /\ call' = [call EXCEPT ![c] =
                                   DataKeyReturn([me2 EXCEPT !.seen = "valid"],
                                                 Ok(item.dataKey))]
                     /\ dataKeyCache' = [dataKeyCache EXCEPT
                                           ![me.key].expiry = now + TTL]
    /\ UNCHANGED << defaultEncryptionKey, providers, cacheNil,
                    store, storeUp, hooks, now, fatal, ready >>

\* Lines 625-626, 629: the lookup, and the return of a live entry.
DkCacheRead(c) ==
    LET me == [call[c] EXCEPT !.nAcc = @ + 1] IN
    /\ Running /\ me.pc = "dk_read"
    /\ call' = [call EXCEPT ![c] =
                  IF me.key \notin DOMAIN dataKeyCache
                  THEN [me EXCEPT !.seen = "miss", !.pc = "dk_fetch"]
                  ELSE LET item == dataKeyCache[me.key]
                           me2 == [me EXCEPT !.age = EntryAge(item, now)]
                       IN  IF Expired(item, now)
                           THEN [me2 EXCEPT !.seen = "expired", !.pc = "dk_delete"]
                           ELSE DataKeyReturn([me2 EXCEPT !.seen = "valid"],
                                              Ok(item.dataKey))]
    /\ UNCHANGED << defaultEncryptionKey, providers, cacheNil, dataKeyCache,
                    store, storeUp, hooks, now, fatal, ready >>

\* Line 627: delete(s.dataKeyCache, key).
DkCacheDelete(c) ==
    LET me == call[c] IN
    /\ Running /\ me.pc = "dk_delete"
    /\ dataKeyCache' = MapDelete(dataKeyCache, me.key)
    /\ call' = [call EXCEPT ![c] =
                  [me EXCEPT !.nAcc = @ + 1, !.nMut = @ + 1, !.pc = "dk_fetch"]]
    /\ UNCHANGED << defaultEncryptionKey, providers, cacheNil, store, storeUp, hooks,
                    now, fatal, ready >>

\* dataKey taking the static secret for a key the store does not hold.
DkFetch_Fallback(c) ==
    LET me == [call[c] EXCEPT !.nFetch = @ + 1] IN
    /\ Running /\ me.pc = "dk_fetch"
    /\ \E out \in GetDataKeyOutcomes(me.key) :
         call' = [call EXCEPT ![c] =
                    IF out = "found"
                    THEN [me EXCEPT !.rec = store[me.key], !.pc = "dk_provider"]
                    ELSE IF out = "notfound"
                    THEN DataKeyReturn(me, Ok(SecretKey))
                    ELSE DataKeyReturn(me, Err("StoreTimeout"))]
    /\ UNCHANGED << defaultEncryptionKey, providers, cacheNil, dataKeyCache,
                    store, storeUp, hooks, now, fatal, ready >>

\* Lines 633-639: s.store.GetDataKey under a deadline of one second.
DkFetch(c) ==
    LET me == [call[c] EXCEPT !.nFetch = @ + 1] IN
    /\ Running /\ me.pc = "dk_fetch"
    /\ \E out \in GetDataKeyOutcomes(me.key) :
         call' = [call EXCEPT ![c] =
                    IF out = "found"
                    THEN [me EXCEPT !.rec = store[me.key], !.pc = "dk_provider"]
                    ELSE IF out = "notfound"
                    THEN DataKeyReturn(me, Err("DataKeyNotFound"))
                    ELSE DataKeyReturn(me, Err("StoreTimeout"))]
    /\ UNCHANGED << defaultEncryptionKey, providers, cacheNil, dataKeyCache,
                    store, storeUp, hooks, now, fatal, ready >>

\* dataKey going on to the cache write when the provider's Decrypt failed.
DkProvider_IgnoreError(c) ==
    LET me == call[c] IN
    /\ Running /\ me.pc = "dk_provider"
    /\ call' = [call EXCEPT ![c] =
                  IF me.rec.provider \notin providers
                  THEN DataKeyReturn(me, Err("ProviderNotFound"))
                  ELSE LET decrypted == ProviderDecrypt(me.rec.provider, me.rec.data)
                       IN  [me EXCEPT !.nDec = @ + 1, !.dec = decrypted.val,
                                      !.pc = "dk_fill"]]
    /\ UNCHANGED << defaultEncryptionKey, providers, cacheNil, dataKeyCache,
                    store, storeUp, hooks, now, fatal, ready >>

\* Lines 642-650: the provider of the record decrypts the data key.
DkProvider(c) ==
    LET me == call[c] IN
    /\ Running /\ me.pc = "dk_provider"
    /\ call' = [call EXCEPT ![c] =
                  IF me.rec.provider \notin providers
                  THEN DataKeyReturn(me, Err("ProviderNotFound"))
                  ELSE LET decrypted == ProviderDecrypt(me.rec.provider, me.rec.data)
                           me2 == [me EXCEPT !.nDec = @ + 1]
                       IN  IF ~decrypted.ok
                           THEN DataKeyReturn(me2, decrypted)
                           ELSE [me2 EXCEPT !.dec = decrypted.val, !.pc = "dk_fill"]]
    /\ UNCHANGED << defaultEncryptionKey, providers, cacheNil, dataKeyCache,
                    store, storeUp, hooks, now, fatal, ready >>

\* dataKey caching the encrypted bytes of the record for the decrypted key.
DkCacheFill_Encrypted(c) ==
    LET me == [call[c] EXCEPT !.nAcc = @ + 1, !.nMut = @ + 1] IN
    /\ Running /\ me.pc = "dk_fill"
    /\ IF cacheNil
       THEN /\ fatal' = "nil_map"
            /\ call' = [call EXCEPT ![c] = [me EXCEPT !.pc = "panic"]]
            /\ UNCHANGED dataKeyCache
       ELSE /\ dataKeyCache' = MapPut(dataKeyCache, me.key,
                                      NewCacheItem(me.rec.data, now))
            /\ call' = [call EXCEPT ![c] = DataKeyReturn(me, Ok(me.dec))]
            /\ UNCHANGED fatal
    /\ UNCHANGED << defaultEncryptionKey, providers, cacheNil, store, storeUp,
                    hooks, now, ready >>

\* Lines 653-658: the entry is written and the key returned.  Assigning to
\* an entry of the nil map is a run-time panic.
DkCacheFill(c) ==
    LET me == [call[c] EXCEPT !.nAcc = @ + 1, !.nMut = @ + 1] IN
    /\ Running /\ me.pc = "dk_fill"
    /\ IF cacheNil
       THEN /\ fatal' = "nil_map"
            /\ call' = [call EXCEPT ![c] = [me EXCEPT !.pc = "panic"]]
            /\ UNCHANGED dataKeyCache
       ELSE /\ dataKeyCache' = MapPut(dataKeyCache, me.key, NewCacheItem(me.dec, now))
            /\ call' = [call EXCEPT ![c] = DataKeyReturn(me, Ok(me.dec))]
            /\ UNCHANGED fatal
    /\ UNCHANGED << defaultEncryptionKey, providers, cacheNil, store, storeUp, hooks,
                    now, ready >>

\* The map is read and written with no lock.  a is about to write or delete
\* an entry while b is about to read, write or delete one: the two accesses
\* are not ordered.
CacheRace(a, b) ==
    /\ a # b
    /\ ~cacheNil
    /\ call[a].pc \in {"dk_delete", "dk_fill"}
    /\ call[b].pc \in {"dk_read", "dk_delete", "dk_fill"}

\* The Go runtime may end the process on unordered map accesses ("fatal
\* error: concurrent map writes", "concurrent map read and map write").
CacheFault ==
    /\ Running
    /\ \E a, b \in Callers : CacheRace(a, b)
    /\ fatal' = "concurrent_map"
    /\ UNCHANGED << defaultEncryptionKey, providers, cacheNil, dataKeyCache,
                    store, storeUp, hooks, now, ready, call >>

-----------------------------------------------------------------------------
(* Encrypt, lines 563-586 *)

\* The caller's state when Encrypt returns r: to newRandomDataKey (lines
\* 547-550) inside Init, or to the caller itself.
EncryptReturn(me, r) ==
    IF me.op = "Init"
    THEN IF ~r.ok THEN [me EXCEPT !.res = r, !.pc = "done"]
         ELSE [me EXCEPT !.enc = r.val, !.pc = "init_create"]
    ELSE [me EXCEPT !.res = r, !.pc = "done"]

\* Lines 564-566: key := s.defaultEncryptionKey; s.dataKey(key).
EncStart(c) ==
    LET me == call[c] IN
    /\ Running /\ me.pc = "enc_start"
    /\ call' = [call EXCEPT ![c] =
                  [me EXCEPT !.key = defaultEncryptionKey, !.pc = "dk_start"]]
    /\ UNCHANGED << defaultEncryptionKey, providers, cacheNil, dataKeyCache,
                    store, storeUp, hooks, now, fatal, ready >>

\* Lines 567-585: the payload is encrypted under the data key and the
\* envelope header put in front; a failure of encrypt is returned.
EncSeal(c) ==
    LET me == call[c] IN
    /\ Running /\ me.pc = "enc_ret"
    /\ IF ~me.dk.ok
       THEN call' = [call EXCEPT ![c] = EncryptReturn(me, me.dk)]
       ELSE \/ call' = [call EXCEPT ![c] =
                        EncryptReturn([me EXCEPT !.nCipher = @ + 1,
                                                 !.cipherOut = "fail"],
                                      Err("EncryptFailure"))]
            \/ \E n \in Nonces :
                 call' = [call EXCEPT ![c] =
                            EncryptReturn([me EXCEPT !.nCipher = @ + 1,
                                                     !.cipherOut = "ok"],
                                          Ok(EncodeEnvelope(me.key,
                                               Seal(me.payload, me.dk.val, n))))]
    /\ UNCHANGED << defaultEncryptionKey, providers, cacheNil, dataKeyCache,
                    store, storeUp, hooks, now, fatal, ready >>

-----------------------------------------------------------------------------
(* Decrypt, lines 588-618 *)

\* decrypt(payload, dataKey) as the last statement of Decrypt.
DecryptUnder(me, payload, dataKey) ==
    LET r == Open(payload, dataKey) IN
    [me EXCEPT !.nCipher = @ + 1, !.payload = payload,
               !.cipherOut = IF r.ok THEN "ok" ELSE "fail",
               !.res = r, !.pc = "done"]

\* Decrypt without the test for the empty payload: the empty payload goes
\* to decrypt under the static secret.
DecryptStep_NoShortcut(me) ==
    IF Len(me.payload) = 0 \/ me.payload[1] # Hash
    THEN DecryptUnder(me, me.payload, SecretKey)
    ELSE LET env == ParseEnvelope(me.payload) IN
         IF ~env.ok
         THEN [me EXCEPT !.res = Err(env.err), !.pc = "done"]
         ELSE [me EXCEPT !.key = env.key, !.payload = env.payload,
                         !.pc = "dk_start"]

\* Decrypt with no test of the first byte: every blob is read as an envelope.
DecryptStep_NoLegacy(me) ==
    IF Len(me.payload) = 0
    THEN [me EXCEPT !.res = Ok(<<>>), !.pc = "done"]
    ELSE LET env == ParseEnvelope(me.payload) IN
         IF ~env.ok
         THEN [me EXCEPT !.res = Err(env.err), !.pc = "done"]
         ELSE [me EXCEPT !.key = env.key, !.payload = env.payload,
                         !.pc = "dk_start"]

\* Decrypt taking the current default key for the key named in the blob.
DecryptStep_UseDefault(me) ==
    IF Len(me.payload) = 0
    THEN [me EXCEPT !.res = Ok(<<>>), !.pc = "done"]
    ELSE IF me.payload[1] # Hash
    THEN DecryptUnder(me, me.payload, SecretKey)
    ELSE LET env == ParseEnvelope(me.payload) IN
         IF ~env.ok
         THEN [me EXCEPT !.res = Err(env.err), !.pc = "done"]
         ELSE [me EXCEPT !.key = defaultEncryptionKey, !.payload = env.payload,
                         !.pc = "dk_start"]

\* Lines 589-611: the empty payload, the legacy payload, the envelope.
DecryptStep(me) ==
    IF Len(me.payload) = 0
    THEN [me EXCEPT !.res = Ok(<<>>), !.pc = "done"]
    ELSE IF me.payload[1] # Hash
    THEN DecryptUnder(me, me.payload, SecretKey)
    ELSE LET env == ParseEnvelope(me.payload) IN
         IF ~env.ok
         THEN [me EXCEPT !.res = Err(env.err), !.pc = "done"]
         ELSE [me EXCEPT !.key = env.key, !.payload = env.payload,
                         !.pc = "dk_start"]

DecStart(c) ==
    /\ Running /\ call[c].pc = "dec_start"
    /\ call' = [call EXCEPT ![c] = DecryptStep(call[c])]
    /\ UNCHANGED << defaultEncryptionKey, providers, cacheNil, dataKeyCache,
                    store, storeUp, hooks, now, fatal, ready >>

\* Lines 612-617.
DecOpen(c) ==
    LET me == call[c] IN
    /\ Running /\ me.pc = "dec_ret"
    /\ call' = [call EXCEPT ![c] =
                  IF ~me.dk.ok THEN [me EXCEPT !.res = me.dk, !.pc = "done"]
                  ELSE DecryptUnder(me, me.payload, me.dk.val)]
    /\ UNCHANGED << defaultEncryptionKey, providers, cacheNil, dataKeyCache,
                    store, storeUp, hooks, now, fatal, ready >>

-----------------------------------------------------------------------------
(* Init, lines 509-538, and newRandomDataKey, lines 540-559 *)

\* Lines 510-516: the provider registry holds the "" provider.
\* Init installing the hooks together with the providers, before the lookup.
InitProviders_Hooks(c) ==
    LET me == call[c] IN
    /\ Running /\ me.pc = "init_providers"
    /\ providers' = {""}
    /\ hooks' = "secrets"
    /\ call' = [call EXCEPT ![c] = [me EXCEPT !.pc = "init_get"]]
    /\ UNCHANGED << defaultEncryptionKey, cacheNil, dataKeyCache, store, storeUp,
                    now, fatal, ready >>

InitProviders(c) ==
    LET me == call[c] IN
    /\ Running /\ me.pc = "init_providers"
    /\ providers' = {""}
    /\ call' = [call EXCEPT ![c] = [me EXCEPT !.pc = "init_get"]]
    /\ UNCHANGED << defaultEncryptionKey, cacheNil, dataKeyCache, store, storeUp, hooks,
                    now, fatal, ready >>

\* Init taking every failure of GetDataKey for "not found".
InitBranch_AnyError(me, out) ==
    IF out = "found" THEN [me EXCEPT !.getOut = out, !.pc = "init_hooks"]
    ELSE [me EXCEPT !.getOut = out, !.pc = "init_rand"]

\* Where Init goes on the answer of GetDataKey, lines 523-532.
InitBranch(me, out) ==
    IF out = "found" THEN [me EXCEPT !.getOut = out, !.pc = "init_hooks"]
    ELSE IF out = "notfound" THEN [me EXCEPT !.getOut = out, !.pc = "init_rand"]
    ELSE [me EXCEPT !.getOut = out, !.res = Err("StoreTimeout"), !.pc = "done"]

\* Line 522: s.store.GetDataKey(ctx, "root") under a deadline of ten seconds.
InitGetDataKey(c) ==
    LET me == call[c] IN
    /\ Running /\ me.pc = "init_get"
    /\ \E out \in GetDataKeyOutcomes(Root) :
         call' = [call EXCEPT ![c] = InitBranch(me, out)]
    /\ UNCHANGED << defaultEncryptionKey, providers, cacheNil, dataKeyCache,
                    store, storeUp, hooks, now, fatal, ready >>

\* Lines 541-547: sixteen random bytes, or the failure of rand.Read; then
\* s.Encrypt(b).
InitRand(c) ==
    LET me == call[c] IN
    /\ Running /\ me.pc = "init_rand"
    /\ \/ call' = [call EXCEPT ![c] =
                     [me EXCEPT !.res = Err("RandomSourceFailure"), !.pc = "done"]]
       \/ \E b \in RandKeys :
            call' = [call EXCEPT ![c] = [me EXCEPT !.payload = b, !.pc = "enc_start"]]
    /\ UNCHANGED << defaultEncryptionKey, providers, cacheNil, dataKeyCache,
                    store, storeUp, hooks, now, fatal, ready >>

\* What newRandomDataKey returns after CreateDataKey answered createErr:
\* line 558, return nil.
NewRandomDataKeyResult(createErr) == Ok(<<>>)

\* newRandomDataKey creating the record under the name of the default key.
InitCreate_UnderDefaultKey(c) ==
    LET me == [call[c] EXCEPT !.nCreate = @ + 1]
        record == [name |-> defaultEncryptionKey, provider |-> DefaultProvider,
                   data |-> me.enc, active |-> TRUE]
    IN
    /\ Running /\ me.pc = "init_create"
    /\ \E out \in CreateDataKeyOutcomes(defaultEncryptionKey) :
         /\ store' = IF out = "nil"
                     THEN MapPut(store, defaultEncryptionKey, record) ELSE store
         /\ call' = [call EXCEPT ![c] =
                       [me EXCEPT !.createOut = IF out = "nil" THEN "ok" ELSE "err",
                                  !.pc = "init_hooks"]]
    /\ UNCHANGED << defaultEncryptionKey, providers, cacheNil, dataKeyCache,
                    storeUp, hooks, now, fatal, ready >>

\* Lines 552-558: s.store.CreateDataKey.  The store writes the record, or
\* fails and writes nothing; a name is created once.
InitCreate(c) ==
    LET me == [call[c] EXCEPT !.nCreate = @ + 1]
        record == [name |-> Root, provider |-> DefaultProvider,
                   data |-> me.enc, active |-> TRUE]
        After(createErr) ==
            LET r == NewRandomDataKeyResult(createErr)
                me2 == [me EXCEPT !.createOut = IF createErr = "nil" THEN "ok" ELSE "err"]
            IN  IF r.ok THEN [me2 EXCEPT !.pc = "init_hooks"]
                ELSE [me2 EXCEPT !.res = r, !.pc = "done"]
    IN
    /\ Running /\ me.pc = "init_create"
    /\ \E out \in CreateDataKeyOutcomes(Root) :
         /\ store' = IF out = "nil" THEN MapPut(store, Root, record) ELSE store
         /\ call' = [call EXCEPT ![c] = After(out)]
    /\ UNCHANGED << defaultEncryptionKey, providers, cacheNil, dataKeyCache,
                    storeUp, hooks, now, fatal, ready >>

\* Lines 534-537: the process-wide hooks, and return nil.
InitHooks(c) ==
    LET me == call[c] IN
    /\ Running /\ me.pc = "init_hooks"
    /\ hooks' = "secrets"
    /\ ready' = TRUE
    /\ call' = [call EXCEPT ![c] = [me EXCEPT !.res = Ok(<<>>), !.pc = "done"]]
    /\ UNCHANGED << defaultEncryptionKey, providers, cacheNil, dataKeyCache,
                    store, storeUp, now, fatal >>

-----------------------------------------------------------------------------
(* Time *)

\* The instants the clock takes: the start, and the minutes from the end of
\* the first TTL on.
ClockTimes == { t \in 1..MaxTime : t = 1 \/ t > TTL }

\* The clock with a sweeper: entries are removed as they expire.
Tick_Sweep(t) ==
    /\ Running
    /\ t \in ClockTimes /\ t > now
    /\ now' = t
    /\ dataKeyCache' = [n \in {m \in DOMAIN dataKeyCache :
                                  ~Expired(dataKeyCache[m], t)} |-> dataKeyCache[n]]
    /\ UNCHANGED << defaultEncryptionKey, providers, cacheNil,
                    store, storeUp, hooks, fatal, ready, call >>

Tick(t) ==
    /\ Running
    /\ t \in ClockTimes /\ t > now
    /\ now' = t
    /\ UNCHANGED << defaultEncryptionKey, providers, cacheNil, dataKeyCache,
                    store, storeUp, hooks, fatal, ready, call >>

-----------------------------------------------------------------------------

\* One caller at a time: every call, on every input.
Next ==
    \/ StartInit("c1")
    \/ \E p \in Payloads : StartEncrypt("c1", p)
    \/ \E blob \in InputBlobs : StartDecrypt("c1", blob)
    \/ DecryptResult("c1")
    \/ \E i \in 1..MaxBlob, j \in Bits : TamperResult("c1", i, j)
    \/ \E k \in DefaultKeys : SetDefaultKey(k)
    \/ \E name \in Names \cup {<<>>} : StartDataKey("c1", name)
    \/ Return("c1")
    \/ DkStart("c1")
    \/ DkCacheRead("c1")
    \/ DkCacheDelete("c1")
    \/ DkFetch("c1")
    \/ DkProvider("c1")
    \/ DkCacheFill("c1")
    \/ EncStart("c1")
    \/ EncSeal("c1")
    \/ DecStart("c1")
    \/ DecOpen("c1")
    \/ InitProviders("c1")
    \/ InitGetDataKey("c1")
    \/ InitRand("c1")
    \/ InitCreate("c1")
    \/ InitHooks("c1")
    \/ \E t \in ClockTimes : Tick(t)

Spec == Init /\ [][Next]_vars

\* A step of the call that caller c is running.
Step(c) ==
    \/ DkStart(c) \/ DkCacheRead(c) \/ DkCacheDelete(c) \/ DkFetch(c)
    \/ DkProvider(c) \/ DkCacheFill(c)
    \/ EncStart(c) \/ EncSeal(c) \/ DecStart(c) \/ DecOpen(c)
    \/ InitProviders(c) \/ InitGetDataKey(c) \/ InitRand(c) \/ InitCreate(c)
    \/ InitHooks(c)

\* One caller at a time, every call, with the default key as configured at
\* the start and blobs handed over as they are.
NextLive ==
    \/ StartInit("c1")
    \/ \E p \in Payloads : StartEncrypt("c1", p)
    \/ \E blob \in InputBlobs : StartDecrypt("c1", blob)
    \/ DecryptResult("c1")
    \/ \E name \in Names \cup {<<>>} : StartDataKey("c1", name)
    \/ Return("c1")
    \/ Step("c1")
    \/ \E t \in ClockTimes : Tick(t)

\* The goroutine of a running call is scheduled again and again, and a store
\* call under a deadline ends: a call that can take a step takes one.
SpecLive == Init /\ [][NextLive]_vars /\ WF_vars(Step("c1"))

\* The envelope written and read back: the header of Encrypt, then the parse
\* of Decrypt, on every key name and every encrypted bytes of the two sets.
NextCodec ==
    \/ \E k \in CodecNames, ct \in CodecBytes : StartDecryptEnvelope("c1", k, ct)
    \/ DecStart("c1")

SpecCodec == Init /\ [][NextCodec]_vars

\* Two callers whose steps interleave: Init, Encrypt and dataKey.
NextConc ==
    \/ \E c \in Callers : StartInit(c)
    \/ \E c \in Callers : StartEncrypt(c, <<>>)
    \/ \E c \in Callers : StartDataKey(c, KName)
    \/ \E c \in Callers : Return(c)
    \/ \E c \in Callers : DkStart(c)
    \/ \E c \in Callers : DkCacheRead(c)
    \/ \E c \in Callers : DkCacheDelete(c)
    \/ \E c \in Callers : DkFetch(c)
    \/ \E c \in Callers : DkProvider(c)
    \/ \E c \in Callers : DkCacheFill(c)
    \/ CacheFault
    \/ \E c \in Callers : EncStart(c)
    \/ \E c \in Callers : EncSeal(c)
    \/ \E c \in Callers : InitProviders(c)
    \/ \E c \in Callers : InitGetDataKey(c)
    \/ \E c \in Callers : InitRand(c)
    \/ \E c \in Callers : InitCreate(c)
    \/ \E c \in Callers : InitHooks(c)
    \/ \E t \in ClockTimes : Tick(t)

SpecConc == Init /\ [][NextConc]_vars

\* The service later in its life: the cache holds entries of earlier calls,
\* made from what the shared store held then, some of them past their
\* expiry, or with the zero expiry the lookup tests for.  One caller at a
\* time.
PriorItems ==
    { [expiry |-> f + TTL, dataKey |-> KData, filled |-> f] : f \in {-20, 1} }
    \cup { [expiry |-> 0, dataKey |-> KData, filled |-> 1] }

PriorCaches ==
    { <<>> } \cup
    UNION { { [n \in {name} |-> item] : item \in PriorItems } : name \in {KName, XName} }

InitCache ==
    /\ defaultEncryptionKey \in DefaultKeys
    /\ providers = {""}
    /\ cacheNil = FALSE
    /\ dataKeyCache \in PriorCaches
    /\ store = ForeignRecords
    /\ storeUp = TRUE
    /\ hooks = "secrets"
    /\ now = 1
    /\ fatal = "none"
    /\ ready = TRUE
    /\ call = [c \in Callers |-> Idle]

SpecCache == InitCache /\ [][Next]_vars

-----------------------------------------------------------------------------
(* Properties *)

\* The key name is "" or names a stored record whose provider is registered.
UsableKey(k) ==
    \/ k = <<>>
    \/ /\ k \in DOMAIN store
       /\ store[k].provider \in providers

UsableDefaultKey == UsableKey(defaultEncryptionKey)

\* C1: round trip.  With a usable default key (the key Encrypt read, whatever
\* the default has been set to since), a store that answers and an
\* encrypt that does not fail, Encrypt(p) returns a blob and Decrypt of that
\* blob returns p, no error.
C1_RoundTrip ==
    \A c \in Callers :
        LET me == call[c] IN
        ( /\ me.pc = "done" /\ me.dk.err # "StoreTimeout"
          /\ me.res.err # "EncryptFailure" /\ me.flipped = 0 ) =>
            /\ (me.op = "Encrypt" /\ UsableKey(me.key)) => me.res.ok
            /\ (me.op = "Decrypt" /\ me.origin.ok /\ UsableKey(me.originKey)) =>
                  me.res = Ok(me.origin.val)

C3_SecondInitWritesNothing ==
    \A c \in Callers :
        LET me == call[c] IN
        (me.op = "Init" /\ ~me.preReady) =>
            (me.getOut # "notfound" /\ me.nCreate = 0)

\* C4: the accesses of the data key cache are serialized.  No caller is
\* about to write or delete a cache entry while another is about to read,
\* write or delete one.
C4_CacheAccessSerialized ==
    \A a, b \in Callers : ~CacheRace(a, b)

\* C5: concurrent misses converge.  Two callers that missed the cache for
\* the same name and both got the key decrypted are not ended by a fault of
\* the map; once both have returned, they hold the same plaintext and the
\* cache holds it under that name.
C5_ConcurrentMissesConverge ==
    \A a, b \in Callers :
        ( /\ a # b /\ ~cacheNil
          /\ call[a].key = call[b].key /\ call[a].key # <<>>
          /\ call[a].seen = "miss" /\ call[b].seen = "miss"
          /\ \A c \in {a, b} :
               \/ call[c].pc = "dk_fill"
               \/ call[c].pc = "done" /\ call[c].res.ok ) =>
            /\ fatal = "none"
            /\ (call[a].pc = "done" /\ call[b].pc = "done") =>
                  /\ call[a].res = call[b].res
                  /\ call[a].key \in DOMAIN dataKeyCache
                  /\ dataKeyCache[call[a].key].dataKey = call[a].res.val

\* The record dataKey fetched names a provider that is not registered, and
\* the provider lookup has been made.
UnknownProvider(me) ==
    /\ me.rec # NoRec
    /\ me.rec.provider \notin providers
    /\ me.pc # "dk_provider"

C7_CreateErrorFailsInit ==
    \A c \in Callers :
        LET me == call[c] IN
        (me.op = "Init" /\ me.createOut = "err") =>
            (me.pc = "done" /\ ~me.res.ok)

\* C8: Init makes a new root key only after GetDataKey answered "not found";
\* on any other failure it returns that error, calls CreateDataKey not once
\* and leaves the store as it was; on a found record it creates nothing.
C8_InitCreatesOnlyOnNotFound ==
    \A c \in Callers :
        LET me == call[c] IN
        me.op = "Init" =>
            /\ (me.nCreate > 0 \/ me.pc \in {"init_rand", "init_create"}
                  \/ me.payload # <<>>) => me.getOut = "notfound"
            /\ me.getOut = "timeout" =>
                  /\ me.pc = "done" /\ me.res = Err("StoreTimeout")
                  /\ me.nCreate = 0 /\ store = me.storeBefore
            /\ me.getOut = "found" => (me.nCreate = 0 /\ store = me.storeBefore)

\* Init has returned the failure of a lookup that was not "not found".
C8_Witness ==
    \E c \in Callers :
        /\ call[c].op = "Init" /\ call[c].pc = "done"
        /\ call[c].getOut = "timeout" /\ ~call[c].res.ok
        /\ Root \notin DOMAIN store

\* C9: lifecycle.  An Encrypt, or a Decrypt of a non-empty blob, that began
\* before any Init had returned nil fails.
C9_FailsBeforeReady ==
    \A c \in Callers :
        LET me == call[c] IN
        ( /\ me.preReady /\ me.pc = "done"
          /\ me.op = "Encrypt" \/ (me.op = "Decrypt" /\ me.arg # <<>>) ) =>
            ~me.res.ok

\* C10: the empty-input shortcut.  Decrypt of the empty blob returns the
\* empty output and no error in one step, with no store fetch, no provider
\* call, no cipher call and no access of the cache.
C10_EmptyShortcut ==
    \A c \in Callers :
        LET me == call[c] IN
        (me.op = "Decrypt" /\ me.arg = <<>>) =>
            /\ me.pc \in {"dec_start", "done"}
            /\ me.pc = "done" => me.res = Ok(<<>>)
            /\ me.nFetch = 0 /\ me.nDec = 0 /\ me.nAcc = 0 /\ me.nCipher = 0
            /\ me.key = <<>> /\ me.rec = NoRec

\* Decrypt of the empty blob has returned.
C10_Witness ==
    \E c \in Callers :
        /\ call[c].op = "Decrypt" /\ call[c].arg = <<>> /\ call[c].pc = "done"

\* C11: the envelope with the empty key name.  An Encrypt that read "" as the
\* default key returns a blob whose first two bytes are "##"; Decrypt of that
\* blob takes "" as the key name, resolves it to the static secret with no
\* store fetch, no provider call and no access of the cache, and returns the
\* payload.
C11_EmptyNameEnvelope ==
    \A c \in Callers :
        LET me == call[c] IN
        /\ (me.op = "Encrypt" /\ me.pc = "done" /\ me.res.ok /\ me.key = <<>>) =>
              /\ Len(me.res.val) >= 2
              /\ SubSeq(me.res.val, 1, 2) = <<35, 35>>
        /\ ( /\ me.op = "Decrypt" /\ me.origin.ok /\ me.originKey = <<>>
             /\ me.flipped = 0 /\ me.pc # "dec_start" ) =>
              /\ me.key = <<>>
              /\ me.nFetch = 0 /\ me.nDec = 0 /\ me.nAcc = 0
              /\ me.pc \in {"dec_ret", "done"} => me.dk = Ok(SecretKey)
              /\ me.pc = "done" => me.res = Ok(me.origin.val)

\* Decrypt has returned the payload of a blob Encrypt made under the default
\* key "".
C11_Witness ==
    \E c \in Callers :
        /\ call[c].op = "Decrypt" /\ call[c].pc = "done"
        /\ call[c].origin = Ok(<<65, 35>>) /\ call[c].originKey = <<>>
        /\ call[c].flipped = 0 /\ call[c].arg[2] = 35
        /\ call[c].res = Ok(<<65, 35>>)

\* C12: the malformed envelope.  Decrypt of a blob whose first byte is '#'
\* and that holds no second '#' fails with MalformedEnvelope in one step: no
\* key is resolved (no key name, no store fetch, no provider call, no access
\* of the cache) and the cipher is not called.
C12_MalformedEnvelope ==
    \A c \in Callers :
        LET me == call[c] IN
        ( /\ me.op = "Decrypt" /\ Len(me.arg) > 0 /\ me.arg[1] = 35
          /\ \A i \in 2..Len(me.arg) : me.arg[i] # 35 ) =>
            /\ me.pc \in {"dec_start", "done"}
            /\ me.pc = "done" => me.res = Err("MalformedEnvelope")
            /\ me.key = <<>> /\ me.dk = Err("none") /\ me.rec = NoRec
            /\ me.nFetch = 0 /\ me.nDec = 0 /\ me.nAcc = 0
            /\ me.nCipher = 0 /\ me.cipherOut = "none"

\* Decrypt of "#aw" has returned.
C12_Witness ==
    \E c \in Callers :
        /\ call[c].op = "Decrypt" /\ call[c].pc = "done"
        /\ call[c].arg = <<35, 97, 119>>
        /\ ~call[c].res.ok

\* C13: tamper detection.  Decrypt of a result of Encrypt with one bit
\* inverted fails and returns no plaintext.  (The claim names the failure,
\* CipherFailure; what is stated here is only that the call fails.)
C13_TamperRejected ==
    \A c \in Callers :
        LET me == call[c] IN
        (me.op = "Decrypt" /\ me.flipped > 0 /\ me.pc = "done") => ~me.res.ok

\* The lookup of dataKey finds an entry under the name.
LookupStep(c) ==
    /\ call[c].pc = "dk_read" /\ call'[c].pc # "dk_read"
    /\ call[c].key \in DOMAIN dataKeyCache

\* The lookup returned the plaintext of the entry and left the cache alone.
LookupHit(c) ==
    /\ call'[c].seen = "valid"
    /\ call'[c].dk = Ok(dataKeyCache[call[c].key].dataKey)
    /\ call'[c].nFetch = 0
    /\ dataKeyCache' = dataKeyCache

\* The lookup goes on to evict the entry and to fetch the record.
LookupEvicts(c) ==
    /\ call'[c].seen = "expired"
    /\ call'[c].pc = "dk_delete"
    /\ call'[c].dk = Err("none")

\* C14 as stated: cache entry validity.  A lookup at time now returns the
\* cached plaintext iff the expiry of the entry is zero or now < expiry; in
\* every other case, now = expiry included, it evicts.
C14_ValidBeforeExpiry ==
    [][ \A c \in Callers :
          LookupStep(c) =>
              LET item == dataKeyCache[call[c].key] IN
              IF item.expiry = 0 \/ now < item.expiry
              THEN LookupHit(c) ELSE LookupEvicts(c) ]_vars

\* C14 amended: a lookup at time now returns the cached plaintext iff the
\* expiry of the entry is zero or now <= expiry; it evicts iff the expiry is
\* not zero and lies before now.
C14_ValidUntilExpiry ==
    [][ \A c \in Callers :
          LookupStep(c) =>
              LET item == dataKeyCache[call[c].key] IN
              IF item.expiry = 0 \/ now <= item.expiry
              THEN LookupHit(c) ELSE LookupEvicts(c) ]_vars

\* A lookup at the very instant of the expiry has returned the cached key.
C14_Witness ==
    \E c \in Callers :
        /\ call[c].op = "dataKey" /\ call[c].pc = "done"
        /\ call[c].key \in DOMAIN dataKeyCache
        /\ dataKeyCache[call[c].key].expiry = now
        /\ call[c].seen = "valid" /\ call[c].nAcc = 1
        /\ call[c].res = Ok(dataKeyCache[call[c].key].dataKey)

\* dataKey missed the cache (or evicted what it found), fetched the record
\* and had it decrypted by its provider.
ProviderDecrypted(me) ==
    /\ me.key # <<>> /\ me.seen \in {"miss", "expired"}
    /\ me.nFetch = 1 /\ me.rec # NoRec /\ me.nDec = 1
    /\ ProviderDecrypt(me.rec.provider, me.rec.data).ok

\* C15: cache fill.  A dataKey call that misses, finds the record and has it
\* decrypted returns the decrypted key, and the cache then holds an entry for
\* the name with that key and an expiry fifteen minutes after the fill.
C15_CacheFill ==
    \A c \in Callers :
        LET me == call[c] IN
        (ProviderDecrypted(me) /\ me.pc # "dk_fill") =>
            /\ me.dk = ProviderDecrypt(me.rec.provider, me.rec.data)
            /\ me.key \in DOMAIN dataKeyCache
            /\ dataKeyCache[me.key].dataKey = me.dk.val
            /\ dataKeyCache[me.key].expiry = dataKeyCache[me.key].filled + 15

\* C16: the static-secret path.  dataKey("") returns the static secret in
\* one step with no store fetch, no provider call and no read or write of the
\* cache; so does every call whose key name is ""; and the cache never holds
\* an entry under the empty name.
C16_StaticSecretPath ==
    /\ <<>> \notin DOMAIN dataKeyCache
    /\ \A c \in Callers :
         LET me == call[c] IN
         /\ me.key = <<>> =>
               /\ me.nFetch = 0 /\ me.nDec = 0 /\ me.nAcc = 0 /\ me.nMut = 0
               /\ me.rec = NoRec
               /\ me.dk \in {Err("none"), Ok(SecretKey)}
         /\ (me.op = "dataKey" /\ me.arg = <<>>) =>
               /\ me.pc \in {"dk_start", "done"}
               /\ me.pc = "done" => me.res = Ok(SecretKey)

\* dataKey("") has returned.
C16_Witness ==
    \E c \in Callers :
        /\ call[c].op = "dataKey" /\ call[c].arg = <<>> /\ call[c].pc = "done"
        /\ call[c].res.ok

\* C17: key rotation compatibility.  Decrypt of a blob Encrypt made resolves
\* the key whose name Encrypt wrote into the blob, whatever the default key
\* is by then; while the record of that key is in the store and the store
\* answers, it returns the payload that was encrypted.
C17_KeyRotation ==
    \A c \in Callers :
        LET me == call[c] IN
        ( /\ me.op = "Decrypt" /\ me.origin.ok /\ me.flipped = 0
          /\ me.pc # "dec_start" ) =>
            /\ me.key = me.originKey
            /\ ( /\ me.pc = "done"
                 /\ me.originKey = <<>> \/ me.originKey \in DOMAIN store
                 /\ me.dk.err # "StoreTimeout" ) =>
                  me.res = Ok(me.origin.val)

\* A blob made while the default key was "k" has been decrypted after the
\* default key was set to another name.
C17_Witness ==
    \E c \in Callers :
        /\ call[c].op = "Decrypt" /\ call[c].pc = "done"
        /\ call[c].origin = Ok(<<65, 35>>) /\ call[c].flipped = 0
        /\ call[c].originKey = KName /\ defaultEncryptionKey # KName
        /\ call[c].res = Ok(<<65, 35>>)

\* C18: GenerateDataKey wraps under the static secret.  Whatever the default
\* key is, the Encrypt inside newRandomDataKey takes the empty key name, makes
\* no store fetch and no access of the cache, and what it hands to
\* CreateDataKey is the new key encrypted under the static secret.
C18_WrapsUnderStaticSecret ==
    \A c \in Callers :
        LET me == call[c] IN
        me.op = "Init" =>
            /\ me.key = <<>>
            /\ me.nFetch = 0 /\ me.nAcc = 0
            /\ me.nCreate > 0 =>
                  /\ SubSeq(me.enc, 1, 2) = <<35, 35>>
                  /\ Open(SubSeq(me.enc, 3, Len(me.enc)), SecretKey) = Ok(me.payload)

\* C19: no internal retry.  One dataKey call makes at most one store fetch
\* and at most one provider decrypt; when its fetch, its provider lookup or
\* its provider decrypt fails, the failure is what dataKey returns and what
\* the Encrypt, Decrypt or Init that called it returns; a failure of the
\* cipher call ends Encrypt, Decrypt or Init with that failure.
C19_NoRetry ==
    \A c \in Callers :
        LET me == call[c] IN
        /\ me.nFetch <= 1 /\ me.nDec <= 1 /\ me.nCipher <= 1
        /\ me.dk.err \in {"DataKeyNotFound", "StoreTimeout", "ProviderNotFound",
                           "CipherFailure"} =>
              /\ me.pc \in {"enc_ret", "dec_ret", "done"}
              /\ me.pc = "done" => me.res = me.dk
              /\ me.nCipher = 0 /\ me.nCreate = 0
        /\ me.cipherOut = "fail" =>
              /\ me.pc = "done"
              /\ me.res \in {Err("CipherFailure"), Err("EncryptFailure")}
              /\ me.nCreate = 0

\* Init has returned the failure of the one store fetch that the Encrypt of
\* newRandomDataKey made.
C19_Witness ==
    \E c \in Callers :
        /\ call[c].op = "Init" /\ call[c].pc = "done"
        /\ call[c].getOut = "notfound"
        /\ call[c].nFetch = 1 /\ call[c].res = Err("StoreTimeout")

\* C20: a store that never answers hangs no caller.  With such a store every
\* Init, Encrypt, Decrypt and dataKey call that has begun returns.
C20_CallsReturn ==
    \A c \in Callers :
        (~storeUp /\ call[c].pc \notin {"idle", "done"}) ~> (call[c].pc = "done")

\* With a store that never answers, a Decrypt and an Init have returned the
\* failure of the one store call they made.
C20_Witness ==
    \E c \in Callers :
        /\ ~storeUp /\ call[c].pc = "done"
        /\ call[c].res = Err("StoreTimeout")
        /\ \/ call[c].op = "Decrypt" /\ call[c].nFetch = 1
           \/ call[c].op = "Init" /\ call[c].getOut = "timeout"

\* The store answered the fetch of dataKey for a non-empty name of which it
\* holds no record.
FetchedMissing(me) ==
    /\ me.key # <<>> /\ me.key \notin DOMAIN store
    /\ me.nFetch = 1 /\ me.pc # "dk_fetch"
    /\ me.dk.err # "StoreTimeout"

\* C21: the missing data key.  When the store holds no record for a
\* non-empty name and answers, dataKey fails with DataKeyNotFound, and so
\* does the Encrypt, Decrypt or Init that asked for the name; no provider is
\* called and the cache holds no entry for the name.
C21_MissingDataKey ==
    \A c \in Callers :
        LET me == call[c] IN
        FetchedMissing(me) =>
            /\ me.dk = Err("DataKeyNotFound")
            /\ me.pc \in {"enc_ret", "dec_ret", "done"}
            /\ me.pc = "done" => me.res = Err("DataKeyNotFound")
            /\ me.nDec = 0 /\ me.rec = NoRec /\ me.nCipher = 0
            /\ me.key \notin DOMAIN dataKeyCache

\* Decrypt of an envelope naming "m", of which the store has no record, has
\* failed.
C21_Witness ==
    \E c \in Callers :
        /\ call[c].op = "Decrypt" /\ call[c].pc = "done"
        /\ call[c].key = MName /\ MName \notin DOMAIN store
        /\ call[c].nFetch = 1
        /\ call[c].res = Err("DataKeyNotFound")

\* C22: the legacy format.  Decrypt of a non-empty blob whose first byte is
\* not '#' hands the whole blob to the cipher under the static secret, in one
\* step, with no key name, no store fetch, no provider call and no access of
\* the cache.
C22_LegacyFormat ==
    \A c \in Callers :
        LET me == call[c] IN
        (me.op = "Decrypt" /\ Len(me.arg) > 0 /\ me.arg[1] # 35) =>
            /\ me.pc \in {"dec_start", "done"}
            /\ me.key = <<>> /\ me.dk = Err("none") /\ me.rec = NoRec
            /\ me.nFetch = 0 /\ me.nDec = 0 /\ me.nAcc = 0
            /\ me.pc = "done" =>
                  /\ me.payload = me.arg /\ me.nCipher = 1
                  /\ me.res = Open(me.arg, SecretKey)

\* Decrypt of a legacy blob has returned the payload.
C22_Witness ==
    \E c \in Callers :
        /\ call[c].op = "Decrypt" /\ call[c].pc = "done"
        /\ call[c].arg = Seal(<<65>>, SecretKey, 7) /\ call[c].arg[1] # 35
        /\ call[c].res = Ok(<<65>>)

\* C23: the envelope codec round trip.  For every key name k, the empty one
\* included, and every encrypted bytes ct, empty or holding '#' included,
\* the parse of '#' + base64(k) + '#' + ct finds no error and recovers the
\* key name k and the bytes ct.
C23_CodecRoundTrip ==
    \A c \in Callers :
        LET me == call[c] IN
        /\ (me.env /\ me.pc = "dec_start") =>
              /\ me.arg[1] = 35
              /\ ParseEnvelope(me.arg).ok
        /\ (me.env /\ me.pc # "dec_start") =>
              /\ me.pc = "dk_start"
              /\ me.key = me.envKey
              /\ me.payload = me.envBytes

\* The envelope of a three-byte name whose base64 is "+/++" and of bytes
\* that begin with '#' has been parsed.
C23_Witness ==
    \E c \in Callers :
        /\ call[c].env /\ call[c].pc = "dk_start"
        /\ call[c].envKey = <<251, 255, 190>> /\ call[c].envBytes = <<35, 35>>
        /\ SubSeq(call[c].arg, 1, 8) = <<35, 43, 47, 43, 43, 35, 35, 35>>
        /\ call[c].key = <<251, 255, 190>> /\ call[c].payload = <<35, 35>>

\* C24: cache coherence.  Every entry of the data key cache is stored under
\* a non-empty name of which the store holds a record, and its key is what
\* the provider named by that record decrypts the record's bytes to.
C24_CacheCoherence ==
    \A n \in DOMAIN dataKeyCache :
        /\ n # <<>>
        /\ n \in DOMAIN store
        /\ store[n].provider \in providers
        /\ ProviderDecrypt(store[n].provider, store[n].data)
              = Ok(dataKeyCache[n].dataKey)

\* The cache holds the key of "k", the call that filled it has returned and
\* the clock has gone on.
C24_Witness ==
    /\ KName \in DOMAIN dataKeyCache
    /\ dataKeyCache[KName].dataKey = KData
    /\ now > dataKeyCache[KName].filled
    /\ \A c \in Callers : call[c].pc = "idle"

\* dataKey has failed for a non-empty name.
DataKeyFailed(me) ==
    me.key # <<>> /\ me.dk.err \notin {"none", "nil"}

\* The step puts an entry for name n into the cache, or changes the one there.
Installs(n) ==
    /\ n \in DOMAIN dataKeyCache'
    /\ n \notin DOMAIN dataKeyCache \/ dataKeyCache'[n] # dataKeyCache[n]

\* C25: a cache entry is installed whole or not at all.  A dataKey call
\* that has failed (at the fetch, the provider lookup or the provider's
\* Decrypt) leaves no entry for its name; and a step that installs an entry
\* for a name is the cache write of a call for that name whose provider has
\* decrypted the record, the entry holding the decrypted key.
C25_AtomicInstall ==
    /\ [](\A c \in Callers :
            DataKeyFailed(call[c]) => call[c].key \notin DOMAIN dataKeyCache)
    /\ [][ \A n \in Names \cup {<<>>} :
             Installs(n) =>
                 \E c \in Callers :
                     /\ call[c].pc = "dk_fill" /\ call[c].key = n
                     /\ call[c].nDec = 1
                     /\ ProviderDecrypt(call[c].rec.provider, call[c].rec.data)
                           = Ok(dataKeyCache'[n].dataKey)
                     /\ call'[c].dk = Ok(dataKeyCache'[n].dataKey) ]_vars

\* The provider's Decrypt has failed on the fetched record, dataKey has
\* returned the failure and the (allocated) cache holds nothing for the name.
C25_Witness ==
    \E c \in Callers :
        /\ ~cacheNil
        /\ call[c].op = "dataKey" /\ call[c].pc = "done"
        /\ call[c].nFetch = 1 /\ call[c].nDec = 1 /\ ~call[c].res.ok
        /\ call[c].key \notin DOMAIN dataKeyCache

\* The step removes the cache entry of name n or changes it.
RemovesOrChanges(n) ==
    /\ n \in DOMAIN dataKeyCache
    /\ n \notin DOMAIN dataKeyCache' \/ dataKeyCache'[n] # dataKeyCache[n]

\* C26: lazy eviction only.  A step that removes or changes the cache entry
\* of a name n is the delete of a dataKey call for n whose lookup found the
\* entry expired, and it removes the entry; the clock, the lookups of other
\* names, Encrypt and Decrypt on the empty name or a legacy blob, and Init
\* leave every entry as it is.
C26_LazyEvictionOnly ==
    [][ \A n \in Names \cup {<<>>} :
          RemovesOrChanges(n) =>
              /\ n \notin DOMAIN dataKeyCache'
              /\ Expired(dataKeyCache[n], now)
              /\ \E c \in Callers :
                    /\ call[c].pc = "dk_delete" /\ call[c].key = n
                    /\ call[c].seen = "expired" ]_vars

\* The lookup of "k" has evicted the expired entry of "k"; the entry of
\* "x", expired as well, is still in the cache.
C26_Witness ==
    \E c \in Callers :
        /\ call[c].key = KName /\ call[c].seen = "expired"
        /\ call[c].pc = "dk_fetch"
        /\ KName \notin DOMAIN dataKeyCache
        /\ XName \in DOMAIN dataKeyCache
        /\ Expired(dataKeyCache[XName], now)

C28_RootKeyUsable ==
    \A c \in Callers :
        LET me == call[c] IN
        (me.key = Root /\ me.rec.name = Root /\ me.nDec > 0) =>
            LET decrypted == ProviderDecrypt(me.rec.provider, me.rec.data) IN
            /\ decrypted.ok
            /\ decrypted.val \in RandKeys
            /\ me.pc = "done" => me.dk = decrypted

C30_StoreFrame ==
    [][ /\ <<>> \notin DOMAIN store /\ <<>> \notin DOMAIN store'
        /\ store' # store =>
             /\ \E c \in Callers :
                  /\ call[c].op = "Init" /\ call[c].pc = "init_create"
                  /\ call'[c].createOut = "ok"
             /\ Root \notin DOMAIN store
             /\ DOMAIN store' = DOMAIN store \cup {Root}
             /\ \A n \in DOMAIN store : store'[n] = store[n]
             /\ store'[Root].name = Root
             /\ store'[Root].active
             /\ store'[Root].provider = DefaultProvider
      ]_vars

\* Init has created "root" in this run, and an Encrypt that fetched a record
\* from the store has returned.
C30_Witness ==
    \E c \in Callers :
        /\ call[c].op = "Encrypt" /\ call[c].pc = "done"
        /\ call[c].nFetch = 1
        /\ Root \in DOMAIN store
        /\ store[Root] # EarlierRoot(CHOOSE b \in RandKeys : TRUE, 7)

\* C31: the process-wide hooks.  The hooks change only in the step in which
\* an Init call returns nil, and become the service's Encrypt and Decrypt;
\* every step that leaves an Init call running, or returned with an error,
\* leaves the hooks as they were.
C31_HooksOnSuccess ==
    [][ /\ hooks' # hooks =>
             /\ hooks' = "secrets"
             /\ \E c \in Callers :
                  /\ call[c].op = "Init" /\ call[c].pc = "init_hooks"
                  /\ call'[c].pc = "done" /\ call'[c].res.ok
        /\ \A c \in Callers :
             ( /\ call'[c].op = "Init"
               /\ ~(call'[c].pc = "done" /\ call'[c].res.ok) ) =>
                 hooks' = hooks
      ]_vars

\* An Init has returned an error after an earlier Init had installed the
\* hooks, and they are still installed.
C31_Witness ==
    \E c \in Callers :
        /\ call[c].op = "Init" /\ call[c].pc = "done" /\ ~call[c].res.ok
        /\ hooks = "secrets"

====
